---- MODULE Spec2Model ----
(***************************************************************************)
(* Account-Manager: the accounts table (database/database.py), the key     *)
(* files under keys/ (utils/cryptography.py) and the login window          *)
(* (gui/login_window.py), as a state machine.                              *)
(*                                                                         *)
(* Python str values and byte strings are sequences of one-character       *)
(* strings.  A stored column value is a record                             *)
(*     [tag, key, nonce, text]                                             *)
(* with tag "str" (a Python str: text), "bytes" (an AES-GCM output:        *)
(* nonce || ciphertext-with-tag of text under key) or "None" (SQL NULL).   *)
(* A "bytes" value is never empty and never whitespace-only (it is at      *)
(* least 12 + 16 bytes of random-looking data).                            *)
(*                                                                         *)
(* Spec: the calls of AccountDatabase and the login window, each call one  *)
(* step, on one date.  SpecSteps: the same with save_account in its two    *)
(* steps (commit, key-file write) and the date changing.  SpecCipher:      *)
(* encrypt and decrypt applied to a key and a text.                        *)
(***************************************************************************)
EXTENDS Integers, Sequences, FiniteSets, TLC

VARIABLES
    accounts,   \* the rows of the accounts table of Accounts.db
    keys,       \* keys/: for each key file name the key it holds, or NoFile
    window,     \* the window shown: "login" (LoginWindow) or "main" (MainWindow)
    last,       \* the last call: its arguments and how it ended
    raised,     \* some save_account, update_account or delete_account raised
    nops,       \* the number of calls made
    today,      \* date.today(), as a day number
    backup,     \* backup/: for each date the copy of Accounts.db, or NoBackup
    pending,    \* the key file a save_account under way has yet to write
    cipher      \* one use of encrypt and decrypt: inputs and values returned

vars == <<accounts, keys, window, last, raised, nops,
          today, backup, pending, cipher>>

(* ------------------------------ bounds -------------------------------- *)

\* Operations (API calls and login attempts) per behaviour.
MaxOps == 3

\* hash_str(key)[:15]: the number of leading digest characters kept, scaled
\* to the digests of the model (three characters for a two-byte key), so
\* that two keys can have one key id as two 32-byte keys can share 15 hex
\* digits.
KEY_ID_LEN == 2

\* Calendar days a behaviour spans.
MaxDay == 2

(* ------------------------------ values -------------------------------- *)

EMPTY == <<>>
WS == <<" ">>
A == <<"a">>
B == <<"b">>
MASTER == <<"m", "a", "s", "t", "e", "r">>

Str(s) == [tag |-> "str", key |-> <<>>, nonce |-> 0, text |-> s]
None == [tag |-> "None", key |-> <<>>, nonce |-> 0, text |-> <<>>]
Bytes(k, n, p) == [tag |-> "bytes", key |-> k, nonce |-> n, text |-> p]

\* generate_key(): the keys secrets.token_bytes can return (three of them).
\* Two begin with the same byte, so that their truncated digests collide.
Keys == {<<"x", "1">>, <<"x", "2">>, <<"y", "1">>}

\* secrets.token_bytes(12): the nonces encrypt can draw.
Nonces == {1, 2}

\* Master passwords typed into the login window.
Passwords == {<<"s">>, <<"w">>}

\* New values typed into a table cell.
Values == {Str(EMPTY), Str(WS), Str(A)}

\* The five texts of the save panel: website, notes, email, username, password.
SaveInputs ==
    { <<Str(A), Str(EMPTY), Str(WS), Str(EMPTY), Str(B)>>,
      <<Str(WS), Str(WS), Str(EMPTY), Str(MASTER), Str(EMPTY)>> }

Columns == {"Website", "Notes", "Email", "Username", "Password"}
ColumnNames == Columns \cup {"Key"}

(* --------------------------- cryptography.py -------------------------- *)

\* str.strip() leaves nothing: every character is whitespace.
AllWhitespace(s) == \A i \in 1..Len(s) : s[i] = " "

is_empty_or_whitespace(v) ==
    \/ v.tag = "None"
    \/ v.tag = "str" /\ AllWhitespace(v.text)

\* SHA-256 hex digest: collision-free on the data of the model.
hash_str(data) == <<"#">> \o data

\* hash_str(key)[:15]
hashed_key(k) == SubSeq(hash_str(k), 1, KEY_ID_LEN)

\* encrypt with the blank plaintext stripped before it is returned.
encrypt_stripped(key, nonce, plaintext) ==
    IF is_empty_or_whitespace(plaintext)
    THEN Str(EMPTY)
    ELSE Bytes(key, nonce, plaintext.text)

encrypt(key, nonce, plaintext) ==
    IF is_empty_or_whitespace(plaintext)
    THEN plaintext
    ELSE Bytes(key, nonce, plaintext.text)

\* What decrypt raises when the tag does not verify or the input is no
\* byte string.
InvalidTag == [tag |-> "error", key |-> <<>>, nonce |-> 0, text |-> <<>>]

\* decrypt without the test for an empty or whitespace-only input.
decrypt_every_input(key, ciphertext) ==
    IF ciphertext.tag = "bytes" /\ ciphertext.key = key
    THEN Str(ciphertext.text)
    ELSE InvalidTag

decrypt(key, ciphertext) ==
    IF is_empty_or_whitespace(ciphertext)
    THEN ciphertext
    ELSE IF ciphertext.tag = "bytes" /\ ciphertext.key = key
         THEN Str(ciphertext.text)
         ELSE InvalidTag

\* The name of every key file the model can create, and the absent file.
KeyFileNames == {hashed_key(k) : k \in Keys}
NoFile == <<>>

\* build_key_file_path(None) raises TypeError (None + ".bin").
build_key_file_path_raises(file_name) == file_name.tag # "str"

\* os.path.exists(path) of the key file named by a str column value.
key_file_exists(file_name) ==
    /\ file_name.text \in KeyFileNames
    /\ keys[file_name.text] # NoFile

\* read_key_from_file opening the file of another key.
read_key_from_other_file(file_name) ==
    CHOOSE k \in Keys : k # keys[file_name.text]

read_key_from_file(file_name) == keys[file_name.text]

(* ----------------------------- database.py ---------------------------- *)

Account(id, key_file, website, notes, email, username, password) ==
    [id |-> id, key_file |-> key_file, website |-> website, notes |-> notes,
     email |-> email, username |-> username, password |-> password]

Ids == {r.id : r \in accounts}

Max(S) == CHOOSE m \in S : \A x \in S : x <= m
Min(S) == CHOOSE m \in S : \A x \in S : m <= x

\* The INTEGER PRIMARY KEY an insert with id=None is given by SQLite: one
\* more than the largest id in the table.
NextId == IF accounts = {} THEN 1 ELSE Max(Ids) + 1

\* session.query(Account).filter_by(id=uid).first()
RowById(uid) == CHOOSE r \in accounts : r.id = uid

\* session.query(Account).filter_by(username='master')
MasterRows == {r \in accounts : r.username = Str(MASTER)}

\* fetch_master_password with a filter no row passes.
fetch_no_master_password == None

\* fetch_master_password: the first such row's password, or None.
fetch_master_password ==
    IF MasterRows = {}
    THEN None
    ELSE (CHOOSE r \in MasterRows : r.id = Min({m.id : m \in MasterRows})).password

\* What the last call was given and how it ended (value is the new value
\* of update_account, the hash of set_master_password, the text of login,
\* the key id save_account derived): result is "ok" or the
\* exception raised to the caller (for login: what the window showed);
\* swallowed is TRUE when delete_key_file caught a failure of os.remove.
Last(op, uid, column, value, args, result, swallowed) ==
    [op |-> op, uid |-> uid, column |-> column, value |-> value,
     args |-> args, result |-> result, swallowed |-> swallowed]

NoArgs == <<>>

\* The dates of the model, and the backup file that does not exist.
Dates == 1..MaxDay
NoBackup == [exists |-> FALSE, db |-> {}]

\* backup_database without the os.path.exists test.
backup_database_always ==
    [backup EXCEPT ![today] = [exists |-> TRUE, db |-> accounts]]

\* backup_database, the listener of the engine's commit event: backup/
\* after it.  The event precedes the COMMIT of the connection, so the file
\* copied holds the table as last committed.
backup_database ==
    IF backup[today].exists
    THEN backup
    ELSE [backup EXCEPT ![today] = [exists |-> TRUE, db |-> accounts]]

\* session.commit() as backup/ sees it.  A commit that raises is taken to
\* raise in the flush, before the commit event.
commit(succeeds) == backup' = IF succeeds THEN backup_database ELSE backup

\* No save_account is under way; no encrypt or decrypt has been applied.
NoPending == [key_file |-> <<>>, key |-> <<>>]
NotYet == [tag |-> "unset", key |-> <<>>, nonce |-> 0, text |-> <<>>]
NoCipher == [key |-> <<>>, nonce |-> 0, plaintext |-> NotYet,
             encrypted |-> NotYet, decrypted |-> NotYet, passed |-> NotYet]

\* AccountDatabase() in an empty directory and the LoginWindow of main.py.
Fresh ==
    /\ accounts = {}
    /\ keys = [f \in KeyFileNames |-> NoFile]
    /\ window = "login"
    /\ last = Last("init", 0, "", None, NoArgs, "ok", FALSE)
    /\ raised = FALSE
    /\ nops = 0
    /\ today = 1
    /\ backup = [d \in Dates |-> NoBackup]
    /\ pending = NoPending

Init == Fresh /\ cipher = NoCipher

\* Account(username='master', password=str(hashed_password)) as inserted.
MasterAccount(hashed_password) ==
    Account(NextId, None, None, None, None, Str(MASTER), Str(hashed_password))

\* set_master_password(hashed_password); the commit may fail.
SetMasterPassword(hashed_password, commitFails) ==
    /\ nops < MaxOps
    /\ nops' = nops + 1
    /\ IF commitFails
       THEN /\ accounts' = accounts
            /\ last' = Last("set_master_password", 0, "", Str(hashed_password),
                            NoArgs, "OperationalError", FALSE)
       ELSE /\ accounts' = accounts \cup {MasterAccount(hashed_password)}
            /\ last' = Last("set_master_password", 0, "", Str(hashed_password),
                            NoArgs, "ok", FALSE)
    /\ commit(~commitFails)
    /\ UNCHANGED <<keys, window, raised, today, pending, cipher>>

\* How LoginWindow.login ends: "set" (first password stored), "opened"
\* (the hashes are equal), "incorrect" (the warning box) or "error" (the
\* except branch: the commit of set_master_password raised).
login_result(password, commitFails) ==
    LET master_password == fetch_master_password
    IN IF master_password = None
       THEN IF commitFails THEN "error" ELSE "set"
       ELSE IF Str(hash_str(password)) = master_password
            THEN "opened"
            ELSE "incorrect"

\* login with close_and_show_next_window in the except branch too.
opens_main_window_unless_incorrect(result) == result # "incorrect"

\* The branches of login that call close_and_show_next_window.
opens_main_window(result) == result \in {"set", "opened"}

\* LoginWindow.login with the text of the password field.
Login(password, commitFails) ==
    /\ window = "login"
    /\ nops < MaxOps
    /\ nops' = nops + 1
    /\ LET result == login_result(password, commitFails)
       IN /\ accounts' = IF result = "set"
                         THEN accounts \cup {MasterAccount(hash_str(password))}
                         ELSE accounts
          /\ window' = IF opens_main_window(result) THEN "main" ELSE window
          /\ last' = Last("login", 0, "", Str(password), NoArgs, result, FALSE)
          /\ commit(result = "set")
    /\ UNCHANGED <<keys, raised, today, pending, cipher>>

\* main.py run again on the same Accounts.db and keys/: a new LoginWindow.
Start ==
    /\ window = "main"
    /\ window' = "login"
    /\ last' = Last("start", 0, "", None, NoArgs, "ok", FALSE)
    /\ UNCHANGED <<accounts, keys, raised, nops, today, backup, pending, cipher>>

\* The row save_account builds from the key generate_key returned and the
\* nonce of each of the five encrypt calls.
NewAccount(key, args, nonce) ==
    Account(NextId, Str(hashed_key(key)),
            encrypt(key, nonce[1], args[1]),
            encrypt(key, nonce[2], args[2]),
            encrypt(key, nonce[3], args[3]),
            encrypt(key, nonce[4], args[4]),
            encrypt(key, nonce[5], args[5]))

\* save_account on a table whose key_file column is not unique.
save_result_not_unique(account, fault) ==
    IF account.password = None
    THEN "IntegrityError"
    ELSE IF fault = "commit" THEN "OperationalError"
    ELSE IF fault = "write" THEN "OSError"
    ELSE "ok"

\* How save_account ends.  The insert violates a constraint of the table
\* (key_file unique, password not null), or fault says what else fails:
\* "commit" (session.commit raises), "write" (the key file cannot be
\* opened for writing) or "none".
save_result(account, fault) ==
    IF \/ \E r \in accounts : r.key_file = account.key_file
       \/ account.password = None
    THEN "IntegrityError"
    ELSE IF fault = "commit" THEN "OperationalError"
    ELSE IF fault = "write" THEN "OSError"
    ELSE "ok"

\* save_account(website, notes, email, username, password): the row is
\* committed, then the key file is written.
SaveAccount(key, args, nonce, fault) ==
    /\ nops < MaxOps
    /\ nops' = nops + 1
    /\ LET account == NewAccount(key, args, nonce)
           result == save_result(account, fault)
       IN /\ accounts' = IF result \in {"ok", "OSError"}
                         THEN accounts \cup {account}
                         ELSE accounts
          /\ keys' = IF result = "ok"
                     THEN [keys EXCEPT ![account.key_file.text] = key]
                     ELSE keys
          /\ last' = Last("save_account",
                          IF result \in {"ok", "OSError"} THEN account.id ELSE 0,
                          "", account.key_file, args, result, FALSE)
          /\ raised' = (raised \/ result # "ok")
          /\ commit(result \in {"ok", "OSError"})
    /\ UNCHANGED <<window, today, pending, cipher>>

\* SetColumn with the Notes branch assigning row.email.
SetColumnNotesToEmail(row, column_updated, new_value) ==
    CASE column_updated = "Website" -> [row EXCEPT !.website = new_value]
      [] column_updated = "Notes" -> [row EXCEPT !.email = new_value]
      [] column_updated = "Email" -> [row EXCEPT !.email = new_value]
      [] column_updated = "Username" -> [row EXCEPT !.username = new_value]
      [] column_updated = "Password" -> [row EXCEPT !.password = new_value]

\* The row with one column assigned.
SetColumn(row, column_updated, new_value) ==
    CASE column_updated = "Website" -> [row EXCEPT !.website = new_value]
      [] column_updated = "Notes" -> [row EXCEPT !.notes = new_value]
      [] column_updated = "Email" -> [row EXCEPT !.email = new_value]
      [] column_updated = "Username" -> [row EXCEPT !.username = new_value]
      [] column_updated = "Password" -> [row EXCEPT !.password = new_value]

\* update_result with the column name matched before the row is looked up.
update_result_column_first(uid, column_updated, new_value, commitFails) ==
    IF column_updated \notin Columns
    THEN "ValueError: invalid column"
    ELSE IF uid \notin Ids
    THEN "ValueError: not found"
    ELSE IF ~is_empty_or_whitespace(new_value)
            /\ build_key_file_path_raises(RowById(uid).key_file)
    THEN "TypeError"
    ELSE IF ~is_empty_or_whitespace(new_value)
            /\ ~key_file_exists(RowById(uid).key_file)
    THEN "FileNotFoundError"
    ELSE IF commitFails THEN "OperationalError"
    ELSE "ok"

\* How update_account ends, in the order of its statements: the row is
\* looked up, the key is read for a value that is to be encrypted, the
\* column name is matched, the session is committed.
update_result(uid, column_updated, new_value, commitFails) ==
    IF uid \notin Ids
    THEN "ValueError: not found"
    ELSE IF ~is_empty_or_whitespace(new_value)
            /\ build_key_file_path_raises(RowById(uid).key_file)
    THEN "TypeError"
    ELSE IF ~is_empty_or_whitespace(new_value)
            /\ ~key_file_exists(RowById(uid).key_file)
    THEN "FileNotFoundError"
    ELSE IF column_updated \notin Columns
    THEN "ValueError: invalid column"
    ELSE IF commitFails THEN "OperationalError"
    ELSE "ok"

\* update_account(uid, column_updated, new_value) with the nonce encrypt
\* draws.
UpdateAccount(uid, column_updated, new_value, nonce, commitFails) ==
    /\ nops < MaxOps
    /\ nops' = nops + 1
    /\ LET result == update_result(uid, column_updated, new_value, commitFails)
       IN /\ accounts' =
                 IF result = "ok"
                 THEN LET row == RowById(uid)
                          stored ==
                              IF is_empty_or_whitespace(new_value)
                              THEN new_value
                              ELSE encrypt(read_key_from_file(row.key_file),
                                           nonce, new_value)
                      IN (accounts \ {row}) \cup
                             {SetColumn(row, column_updated, stored)}
                 ELSE accounts
          /\ last' = Last("update_account", uid, column_updated, new_value,
                          NoArgs, result, FALSE)
          /\ raised' = (raised \/ result # "ok")
          /\ commit(result = "ok")
    /\ UNCHANGED <<keys, window, today, pending, cipher>>

\* delete_key_file that finds no file at the path it built.
delete_no_key_file(file_name, removeFails) == keys

\* delete_key_file(file_name) once the path is built: the key files after
\* it.  os.remove may fail; the exception is caught and printed.
delete_key_file(file_name, removeFails) ==
    IF key_file_exists(file_name) /\ ~removeFails
    THEN [keys EXCEPT ![file_name.text] = NoFile]
    ELSE keys

\* How delete_account ends: no row is a silent return, the path of a NULL
\* key_file cannot be built, the commit may fail.
delete_result(uid, commitFails) ==
    IF uid \notin Ids THEN "ok"
    ELSE IF build_key_file_path_raises(RowById(uid).key_file) THEN "TypeError"
    ELSE IF commitFails THEN "OperationalError"
    ELSE "ok"

\* delete_account calling delete_key_file after session.commit().
removes_key_file_after_commit(result) == result = "ok"

\* delete_account calls delete_key_file before session.commit(): whenever
\* the path of the key file could be built.
removes_key_file(result) == result # "TypeError"

\* delete_account(uid): the key file is removed, then the deletion of the
\* row is committed.
DeleteAccount(uid, removeFails, commitFails) ==
    /\ nops < MaxOps
    /\ nops' = nops + 1
    /\ LET result == delete_result(uid, commitFails)
           found == uid \in Ids
           reached == found /\ removes_key_file(result)
       IN /\ keys' = IF reached
                     THEN delete_key_file(RowById(uid).key_file, removeFails)
                     ELSE keys
          /\ accounts' = IF found /\ result = "ok"
                         THEN accounts \ {RowById(uid)}
                         ELSE accounts
          /\ last' = Last("delete_account", uid, "", None, NoArgs, result,
                          reached /\ removeFails
                              /\ key_file_exists(RowById(uid).key_file))
          /\ raised' = (raised \/ result # "ok")
          /\ commit(found /\ result = "ok")
    /\ UNCHANGED <<window, today, pending, cipher>>

\* The uids a caller passes: the id of every row, and one no row has.
Uids == Ids \cup {NextId}

\* The nonces the encrypt calls of one operation draw: encrypt draws none
\* for a value it passes through.
NoncesFor(v) == IF is_empty_or_whitespace(v) THEN {1} ELSE Nonces

Next ==
    \/ \E h \in {hash_str(p) : p \in Passwords}, f \in BOOLEAN :
           SetMasterPassword(h, f)
    \/ \E p \in Passwords, f \in BOOLEAN : Login(p, f)
    \/ Start
    \/ \E k \in Keys, a \in SaveInputs, f \in {"none", "commit", "write"} :
           \E n \in {m \in [1..5 -> Nonces] : \A i \in 1..5 : m[i] \in NoncesFor(a[i])} :
               SaveAccount(k, a, n, f)
    \/ \E u \in Uids, c \in ColumnNames, v \in Values, f \in BOOLEAN :
           \E n \in NoncesFor(v) : UpdateAccount(u, c, v, n, f)
    \/ \E u \in Uids, rf \in BOOLEAN, cf \in BOOLEAN : DeleteAccount(u, rf, cf)

Spec == Init /\ [][Next]_vars

(* ------------------- save_account step by step, days ------------------ *)

\* Midnight passes: date.today() is the next date.
NextDay ==
    /\ pending = NoPending
    /\ today < MaxDay
    /\ today' = today + 1
    /\ last' = Last("next_day", 0, "", None, NoArgs, "ok", FALSE)
    /\ UNCHANGED <<accounts, keys, window, raised, nops, backup, pending, cipher>>

\* save_account calling save_key_to_file before session.commit().
key_files_written_first(file_name, key) == [keys EXCEPT ![file_name] = key]

\* The key files when session.commit() of save_account returns or raises:
\* save_key_to_file is the statement after it.
key_files_at_commit(file_name, key) == keys

\* save_account up to session.commit(): the row is built and committed;
\* the key generated waits to be written under its key id.
SaveCommit(key, args, nonce, commitFails) ==
    /\ pending = NoPending
    /\ nops < MaxOps
    /\ nops' = nops + 1
    /\ LET account == NewAccount(key, args, nonce)
           result == save_result(account, IF commitFails THEN "commit" ELSE "none")
       IN /\ accounts' = IF result = "ok" THEN accounts \cup {account} ELSE accounts
          /\ pending' = IF result = "ok"
                        THEN [key_file |-> account.key_file.text, key |-> key]
                        ELSE NoPending
          /\ last' = Last("save_account", IF result = "ok" THEN account.id ELSE 0,
                          "", account.key_file, args,
                          IF result = "ok" THEN "committed" ELSE result, FALSE)
          /\ raised' = (raised \/ result # "ok")
          /\ keys' = key_files_at_commit(account.key_file.text, key)
          /\ commit(result = "ok")
    /\ UNCHANGED <<window, today, cipher>>

\* save_key_to_file(file_name, key): the key files after it; open() may
\* fail.
save_key_to_file(file_name, key, writeFails) ==
    IF writeFails THEN keys ELSE [keys EXCEPT ![file_name] = key]

\* save_account from save_key_to_file to its end.
SaveKeyToFile(writeFails) ==
    /\ pending # NoPending
    /\ keys' = save_key_to_file(pending.key_file, pending.key, writeFails)
    /\ last' = [last EXCEPT !.result = IF writeFails THEN "OSError" ELSE "ok"]
    /\ raised' = (raised \/ writeFails)
    /\ pending' = NoPending
    /\ UNCHANGED <<accounts, window, nops, today, backup, cipher>>

\* The process ends between session.commit() and save_key_to_file, and
\* main.py is run again.
Interrupt ==
    /\ pending # NoPending
    /\ pending' = NoPending
    /\ window' = "login"
    /\ last' = [last EXCEPT !.result = "interrupted"]
    /\ raised' = TRUE
    /\ UNCHANGED <<accounts, keys, nops, today, backup, cipher>>

\* One text of the save panel and the nonces of its encrypt calls.
StepInput == <<Str(A), Str(EMPTY), Str(WS), Str(EMPTY), Str(B)>>
StepNonce == [i \in 1..5 |-> 1]

\* The calls one after another (no call begins while a save is under way),
\* save_account in its two steps, and the days passing.
StepNext ==
    \/ NextDay
    \/ \E k \in Keys, f \in BOOLEAN : SaveCommit(k, StepInput, StepNonce, f)
    \/ \E f \in BOOLEAN : SaveKeyToFile(f)
    \/ Interrupt
    \/ /\ pending = NoPending
       /\ \E h \in {hash_str(p) : p \in Passwords}, f \in BOOLEAN :
              SetMasterPassword(h, f)
    \/ /\ pending = NoPending
       /\ \E p \in Passwords, f \in BOOLEAN : Login(p, f)
    \/ /\ pending = NoPending
       /\ Start
    \/ /\ pending = NoPending
       /\ \E u \in Uids, v \in {Str(EMPTY), Str(A)}, f \in BOOLEAN :
              UpdateAccount(u, "Website", v, 1, f)
    \/ /\ pending = NoPending
       /\ \E u \in Uids, rf \in BOOLEAN, cf \in BOOLEAN : DeleteAccount(u, rf, cf)

SpecSteps == Init /\ [][StepNext]_vars

(* ------------------------- encrypt and decrypt ------------------------ *)

\* The texts encrypt is given: empty, whitespace-only, and not.
Plaintexts ==
    {Str(EMPTY), Str(WS), Str(<<" ", " ">>), Str(A), Str(B),
     Str(<<" ", "a">>), Str(<<"a", " ">>), Str(MASTER)}

\* A key, a text, and the nonce encrypt draws for it.
InitCipher ==
    /\ Fresh
    /\ \E k \in Keys, p \in Plaintexts :
           \E n \in NoncesFor(p) :
               cipher = [NoCipher EXCEPT !.key = k, !.nonce = n, !.plaintext = p]

\* encrypt(key, plaintext)
Encrypt ==
    /\ cipher.encrypted = NotYet
    /\ cipher' = [cipher EXCEPT
                     !.encrypted = encrypt(cipher.key, cipher.nonce, cipher.plaintext)]
    /\ UNCHANGED <<accounts, keys, window, last, raised, nops, today, backup, pending>>

\* decrypt(key, c) of the value c encrypt returned.
Decrypt ==
    /\ cipher.encrypted # NotYet
    /\ cipher.decrypted = NotYet
    /\ cipher' = [cipher EXCEPT !.decrypted = decrypt(cipher.key, cipher.encrypted)]
    /\ UNCHANGED <<accounts, keys, window, last, raised, nops, today, backup, pending>>

\* decrypt(key, p) of the text itself.
DecryptText ==
    /\ cipher.passed = NotYet
    /\ cipher' = [cipher EXCEPT !.passed = decrypt(cipher.key, cipher.plaintext)]
    /\ UNCHANGED <<accounts, keys, window, last, raised, nops, today, backup, pending>>

CipherNext == Encrypt \/ Decrypt \/ DecryptText

SpecCipher == InitCipher /\ [][CipherNext]_vars

(* ------------------------------- claims ------------------------------- *)

\* The sentinel, as every reader of the table tells it: username 'master'.
IsMaster(r) == r.username = Str(MASTER)

\* A step that is a call of op, and one that returned without raising.
Called(op) == last'.op = op
Returned(op) == last'.op = op /\ last'.result = "ok"

\* The key file named by a str key_file exists in the key store store.
HasKeyFile(store, r) ==
    /\ r.key_file.tag = "str"
    /\ r.key_file.text \in KeyFileNames
    /\ store[r.key_file.text] # NoFile

\* The record field a column name of the table widget assigns.
Field(column) ==
    CASE column = "Website" -> "website"
      [] column = "Notes" -> "notes"
      [] column = "Email" -> "email"
      [] column = "Username" -> "username"
      [] column = "Password" -> "password"

Fields == {"website", "notes", "email", "username", "password"}

\* C1: while every save_account, update_account and delete_account call so
\* far returned without raising, every row that is not the master row names
\* a key file that exists.
C1_KeyFileOfEveryAccount ==
    ~raised => \A r \in accounts : ~IsMaster(r) => HasKeyFile(keys, r)

\* C2 as stated: after delete_account(uid) returned for a non-master row
\* with key id k, the row is gone, the key file of k is absent, and every
\* other row and every other key file is as before.
C2_DeleteRemovesRowAndKeyFile ==
    [][(/\ Returned("delete_account")
        /\ last'.uid \in Ids
        /\ ~IsMaster(RowById(last'.uid))
        /\ RowById(last'.uid).key_file.tag = "str")
       => /\ accounts' = accounts \ {RowById(last'.uid)}
          /\ keys' = [keys EXCEPT ![RowById(last'.uid).key_file.text] = NoFile]]_vars

\* C2 amended: the same, except that the key file of k is left as it was
\* when os.remove failed (delete_key_file swallows the failure).
C2_DeleteRemovesRowAndKeyFileUnlessRemoveFails ==
    [][(/\ Returned("delete_account")
        /\ last'.uid \in Ids
        /\ ~IsMaster(RowById(last'.uid))
        /\ RowById(last'.uid).key_file.tag = "str")
       => /\ accounts' = accounts \ {RowById(last'.uid)}
          /\ keys' = IF last'.swallowed
                     THEN keys
                     ELSE [keys EXCEPT
                               ![RowById(last'.uid).key_file.text] = NoFile]]_vars

\* A delete_account that returned and removed a key file while another row
\* and another key file exist.
C2_Witness ==
    /\ last.op = "delete_account"
    /\ last.result = "ok"
    /\ ~last.swallowed
    /\ ~raised
    /\ last.uid \notin Ids
    /\ \E r \in accounts : r.id > last.uid /\ ~IsMaster(r) /\ HasKeyFile(keys, r)
    /\ \E f \in KeyFileNames : keys[f] = NoFile

\* C3: a successful update_account changes the named column of the row
\* with id uid and nothing else: not the row's id, key_file or other four
\* columns, no other row, no key file.
C3_UpdateChangesOnlyTheColumn ==
    [][Returned("update_account")
       => /\ keys' = keys
          /\ last'.uid \in Ids
          /\ \E new \in accounts' :
                 LET old == RowById(last'.uid)
                 IN /\ accounts' \ {new} = accounts \ {old}
                    /\ new.id = old.id
                    /\ new.key_file = old.key_file
                    /\ \A f \in Fields \ {Field(last'.column)} : new[f] = old[f]]_vars

\* A successful update_account that stored a ciphertext, with another row
\* in the table.
C3_Witness ==
    /\ last.op = "update_account"
    /\ last.result = "ok"
    /\ Cardinality(accounts) >= 2
    /\ \E r \in accounts :
           /\ r.id = last.uid
           /\ r[Field(last.column)].tag = "bytes"
           /\ r[Field(last.column)].text = last.value.text

\* The five columns of a row decrypted with key, in the order of the
\* arguments of save_account.
Decrypted(key, r) ==
    <<decrypt(key, r.website), decrypt(key, r.notes), decrypt(key, r.email),
      decrypt(key, r.username), decrypt(key, r.password)>>

\* C4: after save_account returned there is exactly one row more, and its
\* five columns decrypted with the key read from its key file are the five
\* arguments.
C4_SaveThenDecryptGivesInputs ==
    [][Returned("save_account")
       => /\ Cardinality(accounts') = Cardinality(accounts) + 1
          /\ \E new \in accounts' \ accounts :
                 /\ accounts' = accounts \cup {new}
                 /\ HasKeyFile(keys', new)
                 /\ Decrypted(keys'[new.key_file.text], new) = last'.args]_vars

\* A save_account that returned for arguments of which one is encrypted,
\* one is empty and one is whitespace.
C4_Witness ==
    /\ last.op = "save_account"
    /\ last.result = "ok"
    /\ \E i, j, k \in 1..5 :
           /\ last.args[i] = Str(EMPTY)
           /\ last.args[j] = Str(WS)
           /\ ~is_empty_or_whitespace(last.args[k])
    /\ \E r \in accounts : r.id = last.uid /\ r.website.tag = "bytes"

\* C5: after a successful update_account on a saved account whose key file
\* can be read, the named column decrypts with that key to the new value
\* (a ciphertext under that key for a value that is not blank, the value
\* itself for a blank one) and the other four columns decrypt as before.
C5_UpdateThenDecrypt ==
    [][(/\ Returned("update_account")
        /\ last'.uid \in Ids
        /\ HasKeyFile(keys, RowById(last'.uid)))
       => \E new \in accounts' :
              LET old == RowById(last'.uid)
                  key == keys'[old.key_file.text]
                  f == Field(last'.column)
              IN /\ new.id = old.id
                 /\ new.key_file = old.key_file
                 /\ decrypt(key, new[f]) = last'.value
                 /\ IF is_empty_or_whitespace(last'.value)
                    THEN new[f] = last'.value
                    ELSE new[f].tag = "bytes" /\ new[f].key = key
                 /\ \A g \in Fields \ {f} :
                        decrypt(key, new[g]) = decrypt(key, old[g])]_vars

\* A successful update_account that encrypted the new value of a saved
\* account that has another encrypted column.
C5_Witness ==
    /\ last.op = "update_account"
    /\ last.result = "ok"
    /\ ~is_empty_or_whitespace(last.value)
    /\ \E r \in accounts :
           /\ r.id = last.uid
           /\ HasKeyFile(keys, r)
           /\ decrypt(keys[r.key_file.text], r[Field(last.column)]) = last.value
           /\ \E g \in Fields \ {Field(last.column)} :
                  /\ r[g].tag = "bytes"
                  /\ decrypt(keys[r.key_file.text], r[g]) = Str(r[g].text)

\* C6: update_account with a uid no row has fails with the 'not found'
\* ValueError, whatever the column name and the value, and changes no row
\* and no key file.
C6_UpdateOfMissingUid ==
    [][(Called("update_account") /\ last'.uid \notin Ids)
       => /\ last'.result = "ValueError: not found"
          /\ accounts' = accounts
          /\ keys' = keys]_vars

\* An update_account of a missing uid with an invalid column name and a
\* value that would be encrypted, while the table has a row.
C6_Witness ==
    /\ last.op = "update_account"
    /\ last.uid \notin Ids
    /\ last.column \notin Columns
    /\ ~is_empty_or_whitespace(last.value)
    /\ last.result = "ValueError: not found"
    /\ accounts # {}

\* C7: update_account on an existing row with a column name that is not
\* one of the five fails with the 'invalid column' ValueError, whatever the
\* value and whether or not the key file can be read, and changes nothing.
C7_UpdateOfInvalidColumn ==
    [][(/\ Called("update_account")
        /\ last'.uid \in Ids
        /\ last'.column \notin Columns)
       => /\ last'.result = "ValueError: invalid column"
          /\ accounts' = accounts
          /\ keys' = keys]_vars

\* The hash a login compares with: the password column of the first row
\* whose username is 'master'.
StoredHash ==
    LET first == Min({m.id : m \in MasterRows})
    IN (CHOOSE r \in MasterRows : r.id = first).password

\* The hash of the password a login step was given.
CandidateHash == Str(hash_str(last'.value.text))

\* The login step succeeded: it opened the main window.
Succeeded == window' = "main" /\ last'.result \in {"set", "opened"}

\* C8 as stated: with no master row, login stores hash(candidate) as the
\* sentinel row and succeeds; with a master row it succeeds exactly when
\* hash(candidate) is the stored hash, and changes no row.
C8_Login ==
    [][Called("login")
       => IF MasterRows = {}
          THEN /\ accounts' = accounts \cup {MasterAccount(hash_str(last'.value.text))}
               /\ Succeeded
          ELSE /\ Succeeded <=> (CandidateHash = StoredHash)
               /\ accounts' = accounts]_vars

\* C8 amended: the same, except that a first login whose commit of the
\* sentinel row raises shows the error, stores nothing and does not succeed.
C8_LoginUnlessCommitRaises ==
    [][Called("login")
       => IF MasterRows = {}
          THEN \/ /\ accounts' = accounts \cup
                          {MasterAccount(hash_str(last'.value.text))}
                  /\ Succeeded
               \/ /\ last'.result = "error"
                  /\ accounts' = accounts
                  /\ ~Succeeded
                  /\ window' = window
          ELSE /\ Succeeded <=> (CandidateHash = StoredHash)
               /\ accounts' = accounts]_vars

\* A login that was given the password of the stored hash and opened the
\* main window: the table holds the one master row and nothing else.
C8_Witness ==
    /\ last.op = "login"
    /\ last.result = "opened"
    /\ window = "main"
    /\ accounts = {Account(1, None, None, None, None, Str(MASTER),
                           Str(hash_str(last.value.text)))}

\* C9: once the table holds exactly one row with username 'master', it
\* holds exactly one after every call.
C9_OneMasterRowForEver ==
    [][Cardinality(MasterRows) = 1 => Cardinality(MasterRows') = 1]_vars

\* C10: the main window is opened only by a login that stored the first
\* master hash or was given the password of the stored hash; a login that
\* ended in the warning box or in the except branch leaves it closed.
C10_MainWindowOnlyAfterLogin ==
    [][/\ (window' = "main" /\ window # "main")
          => /\ Called("login")
             /\ IF MasterRows = {}
                THEN MasterRows' = {MasterAccount(hash_str(last'.value.text))}
                ELSE CandidateHash = StoredHash
       /\ (Called("login") /\ last'.result \in {"incorrect", "error"})
          => window' = "login"]_vars

\* A login whose commit raised: the login window is still the one shown.
C10_Witness ==
    /\ last.op = "login"
    /\ last.result = "error"
    /\ window = "login"
    /\ MasterRows = {}

\* A step in which session.commit() returned: the engine's commit event
\* was sent.
Committed ==
    \/ last'.op = "set_master_password" /\ last'.result = "ok"
    \/ last'.op = "login" /\ last'.result = "set"
    \/ last'.op = "save_account" /\ pending = NoPending
           /\ last'.result \in {"committed", "ok", "OSError"}
    \/ last'.op = "update_account" /\ last'.result = "ok"
    \/ last'.op = "delete_account" /\ last'.result = "ok" /\ last'.uid \in Ids

\* C11: a backup file, once it exists, is never written again or removed;
\* a backup file comes to exist only for the current date and only in a
\* step that commits; and a commit on a date without a backup file
\* creates the file of that date.  (One file per date: the file name is
\* the date.)
C11_OneBackupPerDate ==
    [][ /\ \A d \in Dates : backup[d].exists => backup'[d] = backup[d]
        /\ \A d \in Dates : ~backup[d].exists /\ backup'[d].exists
               => d = today /\ Committed
        /\ Committed /\ ~backup[today].exists => backup'[today].exists ]_vars

\* On the second date two rows have been committed since the backup of
\* that date was made by the first of the two commits, and the call that
\* committed the second returned.
C11_Witness ==
    /\ today = 2
    /\ backup[2].exists
    /\ backup[2].db \subseteq accounts
    /\ Cardinality(accounts) = Cardinality(backup[2].db) + 2
    /\ last.op \in {"save_account", "set_master_password"}
    /\ last.result = "ok"

\* C12: decrypt(k, encrypt(k, p)) is p for every key k and text p; for an
\* empty or whitespace-only p, encrypt(k, p) and decrypt(k, p) are p.
C12_DecryptOfEncrypt ==
    /\ cipher.decrypted # NotYet => cipher.decrypted = cipher.plaintext
    /\ is_empty_or_whitespace(cipher.plaintext) =>
           /\ cipher.encrypted # NotYet => cipher.encrypted = cipher.plaintext
           /\ cipher.passed # NotYet => cipher.passed = cipher.plaintext

\* A text with a leading space was encrypted to a byte string and that was
\* decrypted.
C12_Witness ==
    /\ cipher.plaintext = Str(<<" ", "a">>)
    /\ cipher.encrypted.tag = "bytes"
    /\ cipher.decrypted # NotYet

\* A row of rows names the key file file_name.
HasRow(rows, file_name) == \E r \in rows : r.key_file = Str(file_name)

\* A step of a save_account under way that ends it without the key file
\* written: the process ends, or save_key_to_file raises.
Interrupted ==
    /\ pending # NoPending
    /\ last'.result \in {"interrupted", "OSError"}

\* The order of save_account: on entering the state between the commit and
\* the key-file write the row naming the new key id is committed and no key
\* file has been touched; a step of save_account changes a key file only
\* from that state, and only the file of the new key id.
RowThenKeyFile ==
    /\ pending' # NoPending =>
           HasRow(accounts', pending'.key_file) /\ keys' = keys
    /\ last'.op = "save_account" /\ keys' # keys =>
           /\ pending # NoPending
           /\ HasRow(accounts, pending.key_file)
           /\ \A f \in KeyFileNames \ {pending.key_file} : keys'[f] = keys[f]

\* C13 as stated: the order above, and an interrupted save_account leaves
\* the committed row and no key file of its key id.
C13_RowBeforeKeyFile ==
    [][ /\ RowThenKeyFile
        /\ Interrupted =>
               /\ HasRow(accounts', pending.key_file)
               /\ keys'[pending.key_file] = NoFile ]_vars

\* C13: the order above, and an interrupted save_account leaves the
\* committed row and every key file as it was when the save began (the
\* save has written none).
C13_RowBeforeKeyFileWritten ==
    [][ /\ RowThenKeyFile
        /\ Interrupted =>
               /\ HasRow(accounts', pending.key_file)
               /\ keys' = keys ]_vars

\* A save_account was interrupted after its commit: its row is in the
\* table and there is no key file of its key id.
C13_Witness ==
    /\ last.op = "save_account"
    /\ last.result = "interrupted"
    /\ \E r \in accounts :
           /\ r.id = last.uid
           /\ r.key_file.tag = "str"
           /\ keys[r.key_file.text] = NoFile

\* C14: a save_account that raises leaves the accounts table and the key
\* files as they were before the call.
C14_RaisingSaveChangesNothing ==
    [][Called("save_account") /\ last'.result # "ok"
       => accounts' = accounts /\ keys' = keys]_vars

\* A step that is delete_account(uid) on a row that is there and is not
\* the master row.
DeletesAccount ==
    /\ Called("delete_account")
    /\ last'.uid \in Ids
    /\ ~IsMaster(RowById(last'.uid))

\* The key files after the attempt of delete_account(uid) to remove the
\* key file of the row: removed, or left when there is none or os.remove
\* failed.
KeyFileRemovalAttempted ==
    keys' = IF last'.swallowed \/ ~HasKeyFile(keys, RowById(last'.uid))
            THEN keys
            ELSE [keys EXCEPT ![RowById(last'.uid).key_file.text] = NoFile]

\* C15 as stated: delete_account on an existing non-master row attempts
\* the removal of the key file, returns normally and removes the row.
C15_DeleteNeverLeavesTheRow ==
    [][DeletesAccount
       => /\ KeyFileRemovalAttempted
          /\ last'.result = "ok"
          /\ accounts' = accounts \ {RowById(last'.uid)}]_vars

\* C15 amended.  On a row with a key id the removal of the key file is
\* attempted whatever the commit does, and only the commit can raise: when
\* it does not the row is removed, when it does the row remains.  On a row
\* without a key id the call raises TypeError and changes nothing.
C15_DeleteLeavesTheRowOnlyWhenItRaises ==
    [][DeletesAccount
       => IF RowById(last'.uid).key_file.tag = "str"
          THEN /\ KeyFileRemovalAttempted
               /\ last'.result \in {"ok", "OperationalError"}
               /\ accounts' = IF last'.result = "ok"
                               THEN accounts \ {RowById(last'.uid)}
                               ELSE accounts
          ELSE /\ last'.result = "TypeError"
               /\ accounts' = accounts
               /\ keys' = keys]_vars

\* A delete_account returned although os.remove of the key file failed:
\* the row is gone and its key file is orphaned.
C15_Witness ==
    /\ last.op = "delete_account"
    /\ last.result = "ok"
    /\ last.swallowed
    /\ last.uid \notin Ids
    /\ \E f \in KeyFileNames : keys[f] # NoFile /\ ~HasRow(accounts, f)

\* No two rows have one key id.
KeyIdsUnique(rows) ==
    \A r, q \in rows :
        r # q /\ r.key_file.tag = "str" => r.key_file # q.key_file

\* C16: a save_account whose derived key id is the key_file of a stored
\* row raises IntegrityError and leaves every row and every key file as it
\* was; and after every step no two rows have one key id.
C16_KeyIdCollisionFailsAtCommit ==
    [][ /\ (Called("save_account") /\ \E r \in accounts : r.key_file = last'.value)
           => /\ last'.result = "IntegrityError"
              /\ accounts' = accounts
              /\ keys' = keys
        /\ KeyIdsUnique(accounts') ]_vars

\* A save_account raised IntegrityError: the one stored row has the key id
\* it derived, and the key file of that id still holds the key the row's
\* website is encrypted under.
C16_Witness ==
    /\ last.op = "save_account"
    /\ last.result = "IntegrityError"
    /\ \E r \in accounts :
           /\ r.key_file = last.value
           /\ HasKeyFile(keys, r)
           /\ r.website = Bytes(keys[r.key_file.text], r.website.nonce, A)
           /\ Cardinality(accounts) = 1

\* C17: save_account, update_account and delete_account leave every master
\* row in the table with every column as it was.
C17_MasterRowUnchanged ==
    [][last'.op \in {"save_account", "update_account", "delete_account"}
       => \A r \in MasterRows : r \in accounts']_vars
====
